---------------------------- MODULE Spec2Model ----------------------------
(***************************************************************************)
(* Task analyzer (backend/tasks): the scoring pipeline of scoring.py      *)
(* (score_tasks: _build_task_map, _detect_cycles,                          *)
(* _compute_reverse_dependencies, the sub-scores, the strategy weighting,  *)
(* the explanation and the final sort) and the two views of views.py that  *)
(* call it around the single-slot cache _LAST_ANALYSIS_PAYLOAD.            *)
(*                                                                         *)
(* Representation.                                                         *)
(*  - A date is its proleptic ordinal (date.toordinal()); a missing id or  *)
(*    due date is None.                                                    *)
(*  - estimated_hours is a float in the code; the model draws it from      *)
(*    whole numbers of hours h for which 4/(4+h) is a multiple of 1/3000.  *)
(*  - A sub-score is an integer number of 1/3000 (SubUnit), a weight an    *)
(*    integer number of 1/100 (WeightUnit), so a score is an exact integer *)
(*    number of 1/300000.  The code computes the same quantities in        *)
(*    binary floating point.                                               *)
(*    The batches the specifications draw are such that the doubles of     *)
(*    scoring.py compare, tie and round as these integers do.              *)
(*  - A dict is the sequence of its values in insertion order (a task map  *)
(*    is a sequence of TaskData with pairwise different ids).              *)
(*  - A formatted string is the tuple of its literal pieces and numbers.   *)
(*  - The title of a task is carried through unchanged by the code and is  *)
(*    left out.                                                            *)
(***************************************************************************)
EXTENDS Integers, Sequences, FiniteSets, TLC

VARIABLES
    batch,        \* tasks: the list of raw task dicts given to score_tasks
    strategy,     \* strategy: the argument of score_tasks
    today,        \* date.today()
    pc,           \* position in score_tasks: idle, build, dfs, score, done
    task_map,     \* task_map of score_tasks
    visited,      \* _detect_cycles: visited
    stack,        \* _detect_cycles: stack (the set of active ids)
    frames,       \* _detect_cycles: the activations of dfs, innermost last
    outer,        \* _detect_cycles: position of the outer for loop
    stack_adds,   \* history: how often stack.add(tid) ran, per tid
    reverse_deps, \* reverse_deps of score_tasks
    scored,       \* scored of score_tasks, after the sort
    result,       \* the list score_tasks returns
    handler,      \* who called score_tasks: test, analyze, suggest
    cache,        \* views._LAST_ANALYSIS_PAYLOAD
    response,     \* the Response of the last finished request
    accepted,     \* history: the validated tasks of the accepted analyze requests
    requests      \* history: number of requests started

vars == <<batch, strategy, today, pc, task_map, visited, stack, frames, outer,
          stack_adds, reverse_deps, scored, result, handler, cache, response,
          accepted, requests>>

pipeline_vars == <<task_map, visited, stack, frames, outer, stack_adds,
                   reverse_deps, scored, result>>

view_vars == <<handler, cache, response, accepted, requests>>

-----------------------------------------------------------------------------
(* Bounds of the model *)

MaxTasks == 3        \* tasks in a batch of the dependency-graph specification
MaxDeps == 2         \* declared dependencies of one task
MaxEdges == 4        \* declared dependencies of a whole batch
MaxId == 3           \* ids range over 1..MaxId
MaxRankTasks == 3    \* tasks in a batch of the ranking specification
WideTasks == 2       \* tasks of such a batch whose fields all vary
MaxViewTasks == 4    \* tasks in a batch of a request
MaxRequests == 3     \* requests in a run of the views
Today == 739923      \* the day the model runs on (an ordinal)

-----------------------------------------------------------------------------
(* Values *)

None == -1

Strategies == {"fastest_wins", "high_impact", "deadline_driven", "smart_balance"}

\* 1/SubUnit is the unit of a sub-score, 1/WeightUnit of a weight.
SubUnit == 30 * 100
WeightUnit == 10 * 10
ScoreUnit == SubUnit * WeightUnit

\* date(1970, 1, 1).toordinal() and date.max.toordinal()
Ordinal1970 == 719163
DateMax == 3652059

Range(s) == {s[i] : i \in DOMAIN s}

Max(a, b) == IF a >= b THEN a ELSE b
Min(a, b) == IF a <= b THEN a ELSE b

RECURSIVE Concat(_)
Concat(ss) == IF ss = <<>> THEN <<>> ELSE Head(ss) \o Concat(Tail(ss))

\* The sequences over S of length at most n.
SeqsUpTo(S, n) == UNION {[1..k -> S] : k \in 0..n}

CircularIssue == <<"Circular dependency detected.">>
UnknownIssue(dep_id) == <<"Unknown dependency id ", dep_id, " ignored.">>

-----------------------------------------------------------------------------
(* _build_task_map *)

Keys(tm) == {tm[i].id : i \in DOMAIN tm}

\* The position of key tid in the dict.
IndexOf(tm, tid) == CHOOSE i \in DOMAIN tm : tm[i].id = tid

Get(tm, tid) == tm[IndexOf(tm, tid)]

\* task_map[tid] = task: a new key goes last, a known key keeps its place.
DictSet(tm, tid, task) ==
    IF tid \in Keys(tm)
    THEN [tm EXCEPT ![IndexOf(tm, tid)] = task]
    ELSE Append(tm, task)

TaskData(tid, raw) ==
    [id |-> tid,
     due_date |-> raw.due_date,
     estimated_hours |-> raw.estimated_hours,
     importance |-> raw.importance,
     dependencies |-> raw.dependencies,
     issues |-> <<>>,
     cycle_member |-> FALSE]

\* The first loop: ids are given or taken from the counter next_id.
RECURSIVE InsertTasks(_, _, _, _)
InsertTasks(tasks, i, tm, next_id) ==
    IF i > Len(tasks) THEN tm
    ELSE LET raw == tasks[i]
             tid == IF raw.id = None THEN next_id ELSE raw.id
             nxt == IF raw.id = None THEN next_id + 1 ELSE next_id
         IN  InsertTasks(tasks, i + 1, DictSet(tm, tid, TaskData(tid, raw)), nxt)

\* Mutant: an unknown id is reported and kept.
CleanDependenciesFlagOnly(task, keys) ==
    [task EXCEPT
        !.issues = task.issues \o
            Concat([k \in DOMAIN task.dependencies |->
                       IF task.dependencies[k] \in keys THEN <<>>
                       ELSE <<UnknownIssue(task.dependencies[k])>>])]

\* The second loop, for one task: unknown ids are dropped, each with an issue.
CleanDependencies(task, keys) ==
    [task EXCEPT
        !.dependencies = SelectSeq(task.dependencies, LAMBDA d : d \in keys),
        !.issues = task.issues \o
            Concat([k \in DOMAIN task.dependencies |->
                       IF task.dependencies[k] \in keys THEN <<>>
                       ELSE <<UnknownIssue(task.dependencies[k])>>])]

build_task_map(tasks) ==
    LET tm == InsertTasks(tasks, 1, <<>>, 1)
    IN  [i \in DOMAIN tm |-> CleanDependencies(tm[i], Keys(tm))]

-----------------------------------------------------------------------------
(* _compute_reverse_dependencies *)

\* Mutant: a dependency list counts once for each id it names.
CountDependenciesDistinct(count, deps) ==
    [tid \in DOMAIN count |->
        count[tid] + (IF tid \in Range(deps) THEN 1 ELSE 0)]

\* The inner loop: count[dep] += 1 for every entry dep that is a key.
RECURSIVE CountDependencies(_, _)
CountDependencies(count, deps) ==
    IF deps = <<>> THEN count
    ELSE CountDependencies(
             IF Head(deps) \in DOMAIN count
             THEN [count EXCEPT ![Head(deps)] = @ + 1]
             ELSE count,
             Tail(deps))

\* The outer loop over task_map.values(), from position i on.
RECURSIVE CountTasks(_, _, _)
CountTasks(tm, i, count) ==
    IF i > Len(tm) THEN count
    ELSE CountTasks(tm, i + 1, CountDependencies(count, tm[i].dependencies))

compute_reverse_dependencies(tm) ==
    CountTasks(tm, 1, [tid \in Keys(tm) |-> 0])

-----------------------------------------------------------------------------
(* The sub-scores, in 1/SubUnit *)

\* Mutant: the days counted from the due date to today.
urgency_score_days_since(due, t) ==
    IF due = None THEN (3 * SubUnit) \div 10
    ELSE LET delta_days == t - due
         IN  IF delta_days < 0 THEN (12 * SubUnit) \div 10
             ELSE Max((4 * SubUnit) \div 10,
                      SubUnit - (delta_days * SubUnit) \div 30)

urgency_score(due, t) ==
    IF due = None THEN (3 * SubUnit) \div 10
    ELSE LET delta_days == due - t
         IN  IF delta_days < 0 THEN (12 * SubUnit) \div 10
             ELSE Max((4 * SubUnit) \div 10,
                      SubUnit - (delta_days * SubUnit) \div 30)

importance_score(importance) ==
    (Max(1, Min(importance, 10)) * SubUnit) \div 10

effort_desirability(estimated_hours) ==
    LET hours == IF estimated_hours <= 0 THEN 1 ELSE estimated_hours
    IN  (4 * SubUnit) \div (4 + hours)

dependency_score(num_dependents) ==
    IF num_dependents <= 0 THEN 0
    ELSE Min(SubUnit, (3 * SubUnit) \div 10 + (num_dependents * SubUnit) \div 10)

\* The hours the model may draw: 4/(4+h) is a whole number of 1/SubUnit.
ExactHours(h) == (4 * SubUnit) % (4 + h) = 0

-----------------------------------------------------------------------------
(* _priority_label, _compute_score_for_strategy: scores in 1/ScoreUnit *)

priority_label(score) ==
    IF 10 * score >= 9 * ScoreUnit THEN "High"
    ELSE IF 10 * score >= 6 * ScoreUnit THEN "Medium"
    ELSE "Low"

\* The weights of a strategy, in 1/WeightUnit: urgency, importance, effort,
\* dependency.
Weights(strat) ==
    IF strat = "fastest_wins" THEN <<20, 20, 50, 10>>
    ELSE IF strat = "high_impact" THEN <<20, 60, 0, 20>>
    ELSE IF strat = "deadline_driven" THEN <<60, 20, 10, 10>>
    ELSE <<35, 35, 15, 15>>

compute_score_for_strategy(strat, urgency, importance, effort, dependency, overdue, in_cycle) ==
    LET w == Weights(strat)
        base == w[1] * urgency + w[2] * importance + w[3] * effort
                + w[4] * dependency
        boosted == IF overdue THEN base + ScoreUnit \div 10 ELSE base
        adjusted == IF in_cycle THEN boosted - ScoreUnit \div 10 ELSE boosted
    IN  Max(0, Min(adjusted, (15 * ScoreUnit) \div 10))

\* round(score, 3), in thousandths: the nearest one, a tie to the even one.
round3(score) ==
    LET step == ScoreUnit \div 1000
        q == score \div step
        r == score % step
    IN  IF 2 * r > step \/ (2 * r = step /\ q % 2 = 1) THEN q + 1 ELSE q

-----------------------------------------------------------------------------
(* score_tasks: the loop over task_map.values() and the sort *)

StrategyClause(strat) ==
    IF strat = "fastest_wins"
    THEN <<"Strategy: Fastest Wins (favoring low effort).">>
    ELSE IF strat = "high_impact"
    THEN <<"Strategy: High Impact (favoring importance).">>
    ELSE IF strat = "deadline_driven"
    THEN <<"Strategy: Deadline Driven (favoring due date).">>
    ELSE <<"Strategy: Smart Balance (balancing all factors).">>

BlocksClause(n) == <<"Blocks ", n, " other task(s).">>

\* explanation_parts; " ".join leaves the parts and their order as they are.
Explanation(t, strat, overdue, num_dependents) ==
    (IF overdue THEN <<<<"Overdue task (higher urgency).">>>>
     ELSE IF t.due_date # None THEN <<<<"Due on ", t.due_date>>>>
     ELSE <<>>)
    \o <<<<"Importance: ", t.importance, "/10.">>>>
    \o <<<<"Estimated effort: ", t.estimated_hours, "h.">>>>
    \o (IF num_dependents > 0 THEN <<BlocksClause(num_dependents)>> ELSE <<>>)
    \o <<StrategyClause(strat)>>
    \o (IF t.cycle_member
        THEN <<<<"Part of a circular dependency (slightly penalized).">>>>
        ELSE <<>>)

\* One pass of the loop: the tuple (score, result_task).
ScoredTask(t, strat, rdeps, tday) ==
    LET overdue == t.due_date # None /\ t.due_date < tday
        num_dependents == IF t.id \in DOMAIN rdeps THEN rdeps[t.id] ELSE 0
        score == compute_score_for_strategy(
                     strat,
                     urgency_score(t.due_date, tday),
                     importance_score(t.importance),
                     effort_desirability(t.estimated_hours),
                     dependency_score(num_dependents),
                     overdue,
                     t.cycle_member)
    IN  [score |-> score,
         task |-> [id |-> t.id,
                   due_date |-> t.due_date,
                   estimated_hours |-> t.estimated_hours,
                   importance |-> t.importance,
                   dependencies |-> t.dependencies,
                   score |-> round3(score),
                   priority_label |-> priority_label(score),
                   issues |-> t.issues,
                   explanation |-> Explanation(t, strat, overdue, num_dependents)]]

\* Mutant: a missing due date sorts before every date.
SortKeyNoneFirst(tup) ==
    <<0 - tup.score, tup.task.due_date, 0 - tup.task.importance>>

\* The sort key (-score, due_date or date.max, -importance).
SortKey(tup) ==
    <<0 - tup.score,
      IF tup.task.due_date = None THEN DateMax ELSE tup.task.due_date,
      0 - tup.task.importance>>

\* Tuple comparison: a < b.
KeyLess(a, b) ==
    \/ a[1] < b[1]
    \/ a[1] = b[1] /\ a[2] < b[2]
    \/ a[1] = b[1] /\ a[2] = b[2] /\ a[3] < b[3]

\* list.sort is stable: x goes before the first entry whose key is greater.
InsertByKey(sorted, x) ==
    LET later == {k \in DOMAIN sorted : KeyLess(SortKey(x), SortKey(sorted[k]))}
        at == IF later = {} THEN Len(sorted) + 1
              ELSE CHOOSE k \in later : \A m \in later : k <= m
    IN  SubSeq(sorted, 1, at - 1) \o <<x>> \o SubSeq(sorted, at, Len(sorted))

RECURSIVE SortByKey(_)
SortByKey(s) ==
    IF s = <<>> THEN <<>>
    ELSE InsertByKey(SortByKey(SubSeq(s, 1, Len(s) - 1)), s[Len(s)])

ScoreAndSort(tm, strat, rdeps, tday) ==
    SortByKey([i \in DOMAIN tm |-> ScoredTask(tm[i], strat, rdeps, tday)])

-----------------------------------------------------------------------------
(* score_tasks, step by step *)

\* today = date.today(); task_map = _build_task_map(tasks); then the first
\* lines of _detect_cycles.
BuildTaskMap ==
    /\ pc = "build"
    /\ task_map' = build_task_map(batch)
    /\ visited' = {}
    /\ stack' = {}
    /\ frames' = <<>>
    /\ outer' = 1
    /\ stack_adds' = [tid \in Keys(task_map') |-> 0]
    /\ pc' = "dfs"
    /\ UNCHANGED <<batch, strategy, today, reverse_deps, scored, result>>
    /\ UNCHANGED view_vars

\* "Cycle found: mark all in stack".
MarkStack(tm, stk) ==
    [i \in DOMAIN tm |->
        IF tm[i].id \in stk
        THEN [tm[i] EXCEPT
                 !.cycle_member = TRUE,
                 !.issues = IF CircularIssue \in Range(@) THEN @
                            ELSE Append(@, CircularIssue)]
        ELSE tm[i]]

\* Mutant: the two tests of dfs in the other order.
DfsVisitedFirst(tid, fr) ==
    IF tid \in visited
    THEN /\ frames' = fr
         /\ UNCHANGED <<task_map, visited, stack, stack_adds>>
    ELSE IF tid \in stack
    THEN /\ task_map' = MarkStack(task_map, stack)
         /\ frames' = fr
         /\ UNCHANGED <<visited, stack, stack_adds>>
    ELSE /\ visited' = visited \cup {tid}
         /\ stack' = stack \cup {tid}
         /\ stack_adds' = [stack_adds EXCEPT ![tid] = @ + 1]
         /\ frames' = Append(fr, [tid |-> tid, next |-> 1])
         /\ UNCHANGED task_map

\* The call dfs(tid) up to its for loop, made with the activations fr.
Dfs(tid, fr) ==
    IF tid \in stack
    THEN /\ task_map' = MarkStack(task_map, stack)
         /\ frames' = fr
         /\ UNCHANGED <<visited, stack, stack_adds>>
    ELSE IF tid \in visited
    THEN /\ frames' = fr
         /\ UNCHANGED <<task_map, visited, stack, stack_adds>>
    ELSE /\ visited' = visited \cup {tid}
         /\ stack' = stack \cup {tid}
         /\ stack_adds' = [stack_adds EXCEPT ![tid] = @ + 1]
         /\ frames' = Append(fr, [tid |-> tid, next |-> 1])
         /\ UNCHANGED task_map

\* The outer loop of _detect_cycles: for tid in list(task_map.keys()).
DetectCyclesLoop ==
    /\ pc = "dfs"
    /\ frames = <<>>
    /\ outer <= Len(task_map)
    /\ outer' = outer + 1
    /\ IF task_map[outer].id \notin visited
       THEN Dfs(task_map[outer].id, frames)
       ELSE UNCHANGED <<task_map, visited, stack, frames, stack_adds>>
    /\ UNCHANGED <<batch, strategy, today, pc, reverse_deps, scored, result>>
    /\ UNCHANGED view_vars

\* for dep in task_map[tid].dependencies: dfs(dep), in the innermost dfs.
DfsNextDependency ==
    /\ pc = "dfs"
    /\ frames # <<>>
    /\ LET top == frames[Len(frames)]
           deps == Get(task_map, top.tid).dependencies
       IN  /\ top.next <= Len(deps)
           /\ Dfs(deps[top.next],
                  [frames EXCEPT ![Len(frames)].next = top.next + 1])
    /\ UNCHANGED <<batch, strategy, today, pc, outer, reverse_deps, scored, result>>
    /\ UNCHANGED view_vars

\* Mutant: dfs returns without stack.remove(tid).
DfsReturnKeepsStack ==
    /\ pc = "dfs"
    /\ frames # <<>>
    /\ LET top == frames[Len(frames)]
           deps == Get(task_map, top.tid).dependencies
       IN  /\ top.next > Len(deps)
           /\ frames' = SubSeq(frames, 1, Len(frames) - 1)
    /\ UNCHANGED <<batch, strategy, today, pc, task_map, visited, stack, outer,
                   stack_adds, reverse_deps, scored, result>>
    /\ UNCHANGED view_vars

\* stack.remove(tid) and the return of the innermost dfs.
DfsReturn ==
    /\ pc = "dfs"
    /\ frames # <<>>
    /\ LET top == frames[Len(frames)]
           deps == Get(task_map, top.tid).dependencies
       IN  /\ top.next > Len(deps)
           /\ stack' = stack \ {top.tid}
           /\ frames' = SubSeq(frames, 1, Len(frames) - 1)
    /\ UNCHANGED <<batch, strategy, today, pc, task_map, visited, outer,
                   stack_adds, reverse_deps, scored, result>>
    /\ UNCHANGED view_vars

\* The outer loop is over: _detect_cycles returns.
DetectCyclesReturn ==
    /\ pc = "dfs"
    /\ frames = <<>>
    /\ outer > Len(task_map)
    /\ pc' = "score"
    /\ UNCHANGED <<batch, strategy, today>>
    /\ UNCHANGED pipeline_vars
    /\ UNCHANGED view_vars

\* The rest of score_tasks: the reverse dependencies, the scores, the sort.
ScoreAndRank ==
    /\ pc = "score"
    /\ reverse_deps' = compute_reverse_dependencies(task_map)
    /\ scored' = ScoreAndSort(task_map, strategy, reverse_deps', today)
    /\ result' = [i \in DOMAIN scored' |-> scored'[i].task]
    /\ pc' = "done"
    /\ UNCHANGED <<batch, strategy, today, task_map, visited, stack, frames,
                   outer, stack_adds>>
    /\ UNCHANGED view_vars

ScoreTasksStep ==
    \/ BuildTaskMap
    \/ DetectCyclesLoop
    \/ DfsNextDependency
    \/ DfsReturn
    \/ DetectCyclesReturn
    \/ ScoreAndRank

-----------------------------------------------------------------------------
(* The inputs *)

RawTask(id, due, hours, importance, deps) ==
    [id |-> id, due_date |-> due, estimated_hours |-> hours,
     importance |-> importance, dependencies |-> deps]

RECURSIVE SumLen(_)
SumLen(ss) == IF ss = <<>> THEN 0 ELSE Len(Head(ss)) + SumLen(Tail(ss))

\* Batches of the dependency-graph specification: ids given or not, any
\* dependency lists over 1..MaxId, the other fields as in
\* test_circular_dependency_detection.
GraphTasks ==
    {RawTask(id, None, 1, 5, deps) :
        id \in {None} \cup 1..MaxId, deps \in SeqsUpTo(1..MaxId, MaxDeps)}

GraphBatches ==
    {b \in SeqsUpTo(GraphTasks, MaxTasks) :
        SumLen([i \in DOMAIN b |-> b[i].dependencies]) <= MaxEdges}

\* Batches of the ranking specification, without ids.  The first WideTasks
\* tasks of a batch take every combination of the fields below and may depend
\* on one another; later tasks have no dependencies, importance 10 and no due
\* date or one past the 30-day ramp.  Importance 11 is above the clamp of
\* _importance_score.
DueDates == {None, Today - 1, Today, Today + 40, Today + 50}
Hours == {92, 96}
Importances == {2, 10, 11}

WideRankTasks(i) ==
    {RawTask(None, due, hours, importance, deps) :
        due \in DueDates, hours \in Hours, importance \in Importances,
        deps \in {<<>>} \cup {<<k>> : k \in (1..WideTasks) \ {i}}}

NarrowRankTasks ==
    {RawTask(None, due, hours, 10, <<>>) :
        due \in {None, Today + 40, Today + 50}, hours \in Hours}

AllRankTasks == NarrowRankTasks \cup UNION {WideRankTasks(i) : i \in 1..WideTasks}

RankBatches ==
    UNION {{b \in [1..n -> AllRankTasks] :
               \A i \in 1..n :
                  \/ b[i] \in NarrowRankTasks
                  \/ i <= WideTasks /\ b[i] \in WideRankTasks(i)} :
           n \in 0..MaxRankTasks}

\* Request bodies of POST /api/tasks/analyze/: tasks that validate (one with
\* estimated_hours 0, which validate() replaces, one that depends on the
\* first task of its batch) and one whose due_date is in 1969.
ViewTasks ==
    {RawTask(None, None, 0, 3, <<>>),
     RawTask(None, None, 2, 7, <<1>>),
     RawTask(None, Ordinal1970 - 1, 2, 7, <<>>)}

ViewBatches == SeqsUpTo(ViewTasks, MaxViewTasks)

NoCache == [has_tasks |-> FALSE, tasks |-> <<>>, strategy |-> "smart_balance"]
NoResponse == [view |-> "none", status |-> 0]
NoneAccepted == [any |-> FALSE, tasks |-> <<>>]

ResetPipeline ==
    /\ task_map' = <<>>
    /\ visited' = {}
    /\ stack' = {}
    /\ frames' = <<>>
    /\ outer' = 1
    /\ stack_adds' = <<>>
    /\ reverse_deps' = <<>>
    /\ scored' = <<>>
    /\ result' = <<>>

InitPipeline ==
    /\ task_map = <<>>
    /\ visited = {}
    /\ stack = {}
    /\ frames = <<>>
    /\ outer = 1
    /\ stack_adds = <<>>
    /\ reverse_deps = <<>>
    /\ scored = <<>>
    /\ result = <<>>

\* score_tasks called on its own, as tests.py calls it.
InitCall(batches, strategies) ==
    /\ batch \in batches
    /\ strategy \in strategies
    /\ today = Today
    /\ pc = "build"
    /\ InitPipeline
    /\ handler = "test"
    /\ cache = NoCache
    /\ response = NoResponse
    /\ accepted = NoneAccepted
    /\ requests = 0

Init == InitCall(GraphBatches, Strategies)

Next == ScoreTasksStep

\* score_tasks on the batches of dependency graphs.
Spec == Init /\ [][Next]_vars

InitRank == InitCall(RankBatches, Strategies)

\* score_tasks on the batches of the ranking specification.
SpecRank == InitRank /\ [][Next]_vars

-----------------------------------------------------------------------------
(* serializers.py: what AnalyzeTasksRequestSerializer accepts and returns *)

\* TaskInputSerializer: importance within 1..10, due_date not before 1970.
TaskIsValid(raw) ==
    /\ raw.importance >= 1
    /\ raw.importance <= 10
    /\ ~(raw.due_date # None /\ raw.due_date < Ordinal1970)

IsValid(tasks) == \A i \in DOMAIN tasks : TaskIsValid(tasks[i])

\* TaskInputSerializer.validate: a non-positive estimated_hours becomes 1.0.
ValidatedTask(raw) ==
    [raw EXCEPT !.estimated_hours = IF @ <= 0 THEN 1 ELSE @]

ValidatedData(tasks) == [i \in DOMAIN tasks |-> ValidatedTask(tasks[i])]

-----------------------------------------------------------------------------
(* views.py *)

\* "not _LAST_ANALYSIS_PAYLOAD["tasks"]": None and the empty list are falsy.
NoTasks(payload) == ~payload.has_tasks \/ payload.tasks = <<>>

\* AnalyzeTasksView.post, serializer.is_valid() fails.
AnalyzeRejected ==
    /\ pc = "idle"
    /\ requests < MaxRequests
    /\ \E tasks \in ViewBatches :
          /\ ~IsValid(tasks)
          /\ response' = [view |-> "analyze", status |-> 400]
    /\ requests' = requests + 1
    /\ UNCHANGED <<batch, strategy, today, pc, handler, cache, accepted>>
    /\ UNCHANGED pipeline_vars

\* AnalyzeTasksView.post up to the call of score_tasks.
AnalyzeCall ==
    /\ pc = "idle"
    /\ requests < MaxRequests
    /\ \E tasks \in ViewBatches, strat \in Strategies :
          /\ IsValid(tasks)
          /\ batch' = ValidatedData(tasks)
          /\ strategy' = strat
    /\ accepted' = [any |-> TRUE, tasks |-> batch']
    /\ handler' = "analyze"
    /\ response' = NoResponse
    /\ requests' = requests + 1
    /\ pc' = "build"
    /\ ResetPipeline
    /\ UNCHANGED <<today, cache>>

\* AnalyzeTasksView.post from the return of score_tasks on.
AnalyzeRespond ==
    /\ pc = "done"
    /\ handler = "analyze"
    /\ cache' = [has_tasks |-> TRUE, tasks |-> batch, strategy |-> strategy]
    /\ response' = [view |-> "analyze", status |-> 200,
                    strategy |-> strategy, tasks |-> result]
    /\ handler' = "none"
    /\ pc' = "idle"
    /\ UNCHANGED <<batch, strategy, today, accepted, requests>>
    /\ UNCHANGED pipeline_vars

\* SuggestTasksView.get, nothing to suggest from.
SuggestRejected ==
    /\ pc = "idle"
    /\ requests < MaxRequests
    /\ NoTasks(cache)
    /\ response' = [view |-> "suggest", status |-> 400]
    /\ requests' = requests + 1
    /\ UNCHANGED <<batch, strategy, today, pc, handler, cache, accepted>>
    /\ UNCHANGED pipeline_vars

\* SuggestTasksView.get up to the call of score_tasks.
SuggestCall ==
    /\ pc = "idle"
    /\ requests < MaxRequests
    /\ ~NoTasks(cache)
    /\ batch' = cache.tasks
    /\ strategy' = "smart_balance"
    /\ handler' = "suggest"
    /\ response' = NoResponse
    /\ requests' = requests + 1
    /\ pc' = "build"
    /\ ResetPipeline
    /\ UNCHANGED <<today, cache, accepted>>

\* SuggestTasksView.get from the return of score_tasks on: scored[:3].
SuggestRespond ==
    /\ pc = "done"
    /\ handler = "suggest"
    /\ response' = [view |-> "suggest", status |-> 200,
                    strategy |-> strategy,
                    suggested |-> SubSeq(result, 1, Min(3, Len(result)))]
    /\ handler' = "none"
    /\ pc' = "idle"
    /\ UNCHANGED <<batch, strategy, today, cache, accepted, requests>>
    /\ UNCHANGED pipeline_vars

InitView ==
    /\ batch = <<>>
    /\ strategy = "smart_balance"
    /\ today = Today
    /\ pc = "idle"
    /\ InitPipeline
    /\ handler = "none"
    /\ cache = NoCache
    /\ response = NoResponse
    /\ accepted = NoneAccepted
    /\ requests = 0

NextView ==
    \/ AnalyzeRejected
    \/ AnalyzeCall
    \/ AnalyzeRespond
    \/ SuggestRejected
    \/ SuggestCall
    \/ SuggestRespond
    \/ ScoreTasksStep

\* The two views serving requests one after the other.
SpecView == InitView /\ [][NextView]_vars

-----------------------------------------------------------------------------
(* Notions the properties are stated with *)

\* The id _build_task_map gives to the i-th task of the input.
AssignedId(tasks, i) ==
    IF tasks[i].id # None THEN tasks[i].id
    ELSE 1 + Cardinality({j \in 1..(i - 1) : tasks[j].id = None})

AssignedIds(tasks) == {AssignedId(tasks, i) : i \in DOMAIN tasks}

Occurrences(s, x) == Cardinality({k \in DOMAIN s : s[k] = x})

\* s is t with some entries left out.
IsSubsequence(s, t) ==
    /\ Len(s) <= Len(t)
    /\ \E f \in [DOMAIN s -> DOMAIN t] :
          /\ \A k \in DOMAIN s : s[k] = t[f[k]]
          /\ \A k, m \in DOMAIN s : k < m => f[k] < f[m]

\* The input task a value of the task map was built from: the last one with
\* its id.
DeclaringIndex(tasks, tid) ==
    CHOOSE i \in DOMAIN tasks :
        /\ AssignedId(tasks, i) = tid
        /\ \A j \in DOMAIN tasks : AssignedId(tasks, j) = tid => j <= i

DeclaringTask(tasks, tid) == tasks[DeclaringIndex(tasks, tid)]

\* The ids reachable from the ids in S by one or more dependency edges.
RECURSIVE ReachableFrom(_, _)
ReachableFrom(tm, S) ==
    LET more == S \cup UNION {Range(Get(tm, tid).dependencies) : tid \in S}
    IN  IF more = S THEN S ELSE ReachableFrom(tm, more)

\* tid lies on a directed cycle of the dependency graph.
OnCycle(tm, tid) ==
    tid \in ReachableFrom(tm, Range(Get(tm, tid).dependencies))

RECURSIVE TotalOccurrences(_, _, _)
TotalOccurrences(tm, i, tid) ==
    IF i > Len(tm) THEN 0
    ELSE Occurrences(tm[i].dependencies, tid) + TotalOccurrences(tm, i + 1, tid)

\* The ids met by following, from the ids in S, the single dependency of
\* each task (tasks with different ids, one dependency each).
RECURSIVE RingOrbit(_, _)
RingOrbit(tasks, S) ==
    LET more == S \cup {tasks[i].dependencies[1] :
                           i \in {k \in DOMAIN tasks : AssignedId(tasks, k) \in S}}
    IN  IF more = S THEN S ELSE RingOrbit(tasks, more)

\* The input is a ring: the tasks have different ids, each depends on exactly
\* one task of the batch and is the dependency of one, and following the
\* dependencies from the first task passes through every task.
IsRing(tasks) ==
    /\ tasks # <<>>
    /\ Cardinality(AssignedIds(tasks)) = Len(tasks)
    /\ \A i \in DOMAIN tasks :
          /\ Len(tasks[i].dependencies) = 1
          /\ tasks[i].dependencies[1] \in AssignedIds(tasks)
    /\ \A tid \in AssignedIds(tasks) :
          \E i \in DOMAIN tasks : tasks[i].dependencies[1] = tid
    /\ RingOrbit(tasks, {AssignedId(tasks, 1)}) = AssignedIds(tasks)

AfterBuild == pc \in {"dfs", "score", "done"}
AfterDetectCycles == pc \in {"score", "done"}

-----------------------------------------------------------------------------
(* Properties of score_tasks on dependency graphs (Spec) *)

\* C1: score_tasks returns one scored task per input task: as many entries
\* as the input has tasks, and for each input task an entry with its id and
\* its own (cleaned) dependencies.
C1_CardinalityPreserved ==
    pc = "done" =>
        /\ Len(result) = Len(batch)
        /\ \A i \in DOMAIN batch :
              \E j \in DOMAIN result :
                 /\ result[j].id = AssignedId(batch, i)
                 /\ IsSubsequence(result[j].dependencies, batch[i].dependencies)

\* C2: when the input is a ring, then under each strategy every task of the
\* result is marked as a cycle member and carries the issue "Circular
\* dependency detected." exactly once.
C2_RingDetected ==
    (pc = "done" /\ IsRing(batch)) =>
        /\ Len(result) = Len(batch)
        /\ \A j \in DOMAIN result :
              /\ Occurrences(result[j].issues, CircularIssue) = 1
              /\ Get(task_map, result[j].id).cycle_member

C2_Witness ==
    /\ pc = "done"
    /\ IsRing(batch)
    /\ Len(batch) = 3
    /\ strategy = "high_impact"
    /\ \A j \in DOMAIN result : result[j].issues = <<CircularIssue>>

\* C3: after _build_task_map every dependency of every task is a key of the
\* task map; the dependencies of a task are those its input task declared
\* with the ids that are no keys left out and the others in their order; and
\* for every id that is no key the task has one issue "Unknown dependency id
\* {id} ignored." per declared occurrence (none for an id that is a key).
C3_UnknownPruned ==
    AfterBuild =>
        \A i \in DOMAIN task_map :
            LET t == task_map[i]
                raw == DeclaringTask(batch, t.id)
            IN  /\ Range(t.dependencies) \subseteq Keys(task_map)
                /\ IsSubsequence(t.dependencies, raw.dependencies)
                /\ \A d \in 1..MaxId :
                      IF d \in Keys(task_map)
                      THEN /\ Occurrences(t.dependencies, d)
                                = Occurrences(raw.dependencies, d)
                           /\ Occurrences(t.issues, UnknownIssue(d)) = 0
                      ELSE Occurrences(t.issues, UnknownIssue(d))
                                = Occurrences(raw.dependencies, d)

C3_Witness ==
    /\ pc = "dfs"
    /\ \E i \in DOMAIN task_map :
          LET t == task_map[i]
              raw == DeclaringTask(batch, t.id)
          IN  /\ Len(raw.dependencies) = 2
              /\ raw.dependencies[1] \notin Keys(task_map)
              /\ t.dependencies = <<raw.dependencies[2]>>
              /\ t.issues = <<UnknownIssue(raw.dependencies[1])>>

C8_CycleDetectionComplete ==
    AfterDetectCycles =>
        \A i \in DOMAIN task_map :
            OnCycle(task_map, task_map[i].id) =>
                /\ task_map[i].cycle_member
                /\ CircularIssue \in Range(task_map[i].issues)

\* C9: after _detect_cycles a task is marked as a cycle member, or has the
\* issue "Circular dependency detected.", only if it lies on a directed cycle.
C9_CycleDetectionSound ==
    AfterDetectCycles =>
        \A i \in DOMAIN task_map :
            (task_map[i].cycle_member \/ CircularIssue \in Range(task_map[i].issues))
                => OnCycle(task_map, task_map[i].id)

\* What _detect_cycles has left to do: the ids not yet visited (each may
\* still get an activation of dfs, with all its dependencies to go through),
\* the dependencies the activations on the call stack have not gone through,
\* the returns of these activations, and the rest of the outer loop.
RECURSIVE FramesWork(_, _)
FramesWork(tm, fr) ==
    IF fr = <<>> THEN 0
    ELSE (Len(Get(tm, Head(fr).tid).dependencies) + 2 - Head(fr).next)
         + FramesWork(tm, Tail(fr))

RECURSIVE UnvisitedWork(_, _)
UnvisitedWork(tm, S) ==
    IF S = {} THEN 0
    ELSE LET tid == CHOOSE x \in S : TRUE
         IN  (Len(Get(tm, tid).dependencies) + 2) + UnvisitedWork(tm, S \ {tid})

DfsWork ==
    UnvisitedWork(task_map, Keys(task_map) \ visited)
    + FramesWork(task_map, frames)
    + (Len(task_map) + 1 - outer)

DetectCyclesStep ==
    DetectCyclesLoop \/ DfsNextDependency \/ DfsReturn \/ DetectCyclesReturn

\* C10: _detect_cycles finishes: while it runs a step is always possible, and
\* each step but its return takes a whole number, never negative, of what is
\* left to do down by at least one.  No id is added to the active stack more
\* than once; when it has finished the active stack is empty, no activation
\* of dfs is left and every id of the task map was visited and was added to
\* the active stack once.
C10_DetectCyclesTerminates ==
    /\ [](pc = "dfs" => (DfsWork >= 0 /\ ENABLED DetectCyclesStep))
    /\ [][(pc = "dfs" /\ pc' = "dfs") => DfsWork' < DfsWork]_vars
    /\ [](AfterBuild => \A tid \in DOMAIN stack_adds : stack_adds[tid] <= 1)
    /\ [](AfterDetectCycles =>
             /\ stack = {}
             /\ frames = <<>>
             /\ visited = Keys(task_map)
             /\ \A tid \in Keys(task_map) : stack_adds[tid] = 1)

C10_Witness ==
    /\ pc = "score"
    /\ Len(task_map) = 3
    /\ \E i \in DOMAIN task_map :
          /\ task_map[i].id \in Range(task_map[i].dependencies)
          /\ task_map[i].cycle_member
    /\ \E i \in DOMAIN task_map :
          /\ Len(task_map[i].dependencies) = 2
          /\ task_map[i].dependencies[1] = task_map[i].dependencies[2]
          /\ task_map[i].dependencies[1] # task_map[i].id

-----------------------------------------------------------------------------
(* Properties of the scores and of the ranking (SpecRank) *)

\* The due date as the sort sees it.
DueOrMax(due) == IF due = None THEN DateMax ELSE due

\* The position of the task with this id in the task map: ids are in the
\* order in which they first appear in the input.
MapPosition(tid) == IndexOf(task_map, tid)

\* C4: under "deadline_driven", of two tasks with the same importance,
\* effort, number of dependents and cycle membership, the one due before
\* today has a strictly higher output score than the one due today or later.
C4_OverdueDominance ==
    (pc = "done" /\ strategy = "deadline_driven") =>
        \A i, j \in DOMAIN result :
            LET a == result[i]
                b == result[j]
            IN  (/\ a.importance = b.importance
                 /\ a.estimated_hours = b.estimated_hours
                 /\ reverse_deps[a.id] = reverse_deps[b.id]
                 /\ Get(task_map, a.id).cycle_member
                        = Get(task_map, b.id).cycle_member
                 /\ a.due_date # None /\ a.due_date < today
                 /\ b.due_date # None /\ b.due_date >= today)
                => a.score > b.score

C4_Witness ==
    /\ pc = "done"
    /\ strategy = "deadline_driven"
    /\ \E i, j \in DOMAIN result :
          LET a == result[i]
              b == result[j]
          IN  /\ a.importance = b.importance
              /\ a.estimated_hours = b.estimated_hours
              /\ reverse_deps[a.id] = 1
              /\ reverse_deps[b.id] = 1
              /\ Get(task_map, a.id).cycle_member
              /\ Get(task_map, b.id).cycle_member
              /\ a.due_date = today - 1
              /\ b.due_date = today
              /\ a.score > b.score

\* C5 as claimed: the result is sorted by the output score descending, then
\* by the due date ascending (a missing one last), then by the importance
\* descending, then by the input order.
C5_RankedByOutputScore ==
    pc = "done" =>
        \A i, j \in DOMAIN result :
            i < j =>
                LET a == result[i]
                    b == result[j]
                IN  \/ a.score > b.score
                    \/ /\ a.score = b.score
                       /\ DueOrMax(a.due_date) < DueOrMax(b.due_date)
                    \/ /\ a.score = b.score
                       /\ DueOrMax(a.due_date) = DueOrMax(b.due_date)
                       /\ a.importance > b.importance
                    \/ /\ a.score = b.score
                       /\ DueOrMax(a.due_date) = DueOrMax(b.due_date)
                       /\ a.importance = b.importance
                       /\ DeclaringIndex(batch, a.id) < DeclaringIndex(batch, b.id)

\* C5, amended: the result holds the tasks of the task map, each once, sorted
\* by the score before rounding descending (so the output scores never
\* increase either), then by the due date ascending (a missing one last),
\* then by the importance descending, then by the order in which the ids
\* first appear in the input.
C5_RankedByScore ==
    pc = "done" =>
        /\ Len(result) = Len(task_map)
        /\ {result[i].id : i \in DOMAIN result} = Keys(task_map)
        /\ \A i \in DOMAIN result : result[i] = scored[i].task
        /\ \A i, j \in DOMAIN result :
              i < j =>
                  LET a == result[i]
                      b == result[j]
                      sa == scored[i].score
                      sb == scored[j].score
                  IN  /\ a.score >= b.score
                      /\ \/ sa > sb
                         \/ /\ sa = sb
                            /\ DueOrMax(a.due_date) < DueOrMax(b.due_date)
                         \/ /\ sa = sb
                            /\ DueOrMax(a.due_date) = DueOrMax(b.due_date)
                            /\ a.importance > b.importance
                         \/ /\ sa = sb
                            /\ DueOrMax(a.due_date) = DueOrMax(b.due_date)
                            /\ a.importance = b.importance
                            /\ MapPosition(a.id) < MapPosition(b.id)

\* Three tasks with one score, returned in the reverse of their order in the
\* input and in the task map:
\* the due date puts the last one first, the importance the second before
\* the first.
C5_Witness ==
    /\ pc = "done"
    /\ Len(result) = 3
    /\ scored[1].score = scored[3].score
    /\ MapPosition(result[1].id) = 3
    /\ MapPosition(result[2].id) = 2
    /\ MapPosition(result[3].id) = 1
    /\ result[1].due_date # None
    /\ result[1].due_date < result[2].due_date
    /\ result[2].due_date = result[3].due_date
    /\ result[2].importance > result[3].importance

-----------------------------------------------------------------------------
(* Properties of the views (SpecView) *)

\* C7: between requests the cache holds the tasks of the last accepted
\* analyze request, if any (a rejected request leaves it alone); a suggest
\* request answers 400 when no analyze request was accepted so far, and
\* otherwise 200 with the first min(3, N) entries of score_tasks on the N
\* tasks of the last accepted analyze request under "smart_balance".
C7_SuggestUsesLastAnalysis ==
    /\ pc = "idle" =>
          /\ cache.has_tasks = accepted.any
          /\ accepted.any => cache.tasks = accepted.tasks
    /\ response.view = "suggest" =>
          IF ~accepted.any
          THEN response.status = 400
          ELSE /\ response.status = 200
               /\ response.strategy = "smart_balance"
               /\ batch = accepted.tasks
               /\ strategy = "smart_balance"
               /\ response.suggested
                      = SubSeq(result, 1, Min(3, Len(accepted.tasks)))

=============================================================================
